---------------------------- MODULE Spec2Model ----------------------------
(***************************************************************************)
(* A model of project-parakeet's CosmicRayGenerator                        *)
(* (src/cosmic_ray_utils.py) and of the file-polling detector script,      *)
(* which resets the signal file and calls monitor_rays                     *)
(* (src/tests/rpi4_tests/test1.1/main.py).                                 *)
(*                                                                         *)
(* Four specifications share the variables:                                *)
(*   SpecInit  the constructor applied to every bounded configuration;     *)
(*   Spec      simulate_continuous running beside the detector script over *)
(*             the shared signal file (FairSpec adds the loop's fairness); *)
(*   SpecRead  read_events_from_file / get_events over bounded log files;  *)
(*   SpecOps   generate_signal, the other data methods and the loop, for   *)
(*             the synthesis and for what the methods leave unchanged.     *)
(*                                                                         *)
(* The file system is observed at two places: sigFile is the file at the   *)
(* generator's signal_file path (when that path is not the empty string)   *)
(* and logFile is the file at its event_log path.  Paths are assumed to    *)
(* lie in an existing, writable directory and text to be decodable, so     *)
(* that open() fails only for a missing file or an empty path.             *)
(***************************************************************************)
EXTENDS Integers, Sequences, FiniteSets, TLC

VARIABLES
    sigFile,     \* content of the signal file, or Absent
    preFile,     \* content of the signal file before __init__ ran (history)
    args,        \* the arguments __init__ was called with (history)
    gen,         \* outcome of __init__: what it raised and the object built
    pc,          \* simulate_continuous: position of the calling thread
    callback,    \* simulate_continuous: whether a callback was supplied
    stop_event,  \* simulate_continuous: "None", or the flag's state
    event,       \* simulate_continuous: the local `event` (its ordinal)
    emitted,     \* number of events generate_random_event produced (history)
    cbCalls,     \* number of callback invocations (history)
    cbArg,       \* argument of the latest callback invocation (history)
    writes,      \* characters the loop wrote to the signal file (history)
    mark,        \* where the loop was when the stop flag was last set (history)
    dpc,         \* monitor_rays: position of the detector process
    signal,      \* monitor_rays: the local `signal`
    detected,    \* number of "Ray detected!" reports (history)
    before,      \* monitor_rays was called before the loop's first write (history)
    logFile,     \* the event log: whether it exists, and its lines
    ret,         \* outcome of the latest read_events_from_file / get_events
    synth,       \* generate_signal: its position, locals and outcome
    kept         \* a returned list the caller kept and changed (history)

vars == <<sigFile, preFile, args, gen, pc, callback, stop_event, event,
          emitted, cbCalls, cbArg, writes, mark, dpc, signal, detected, before,
          logFile, ret, synth, kept>>

loopVars == <<pc, callback, stop_event, event, emitted, cbCalls, cbArg, writes,
             mark>>
detVars  == <<dpc, signal, detected, before>>
readVars == <<logFile, ret, synth, kept>>

---------------------------------------------------------------------------
(* Files *)

Absent == "<absent>"

\* What a signal file may hold before the generator exists: nothing, the two
\* protocol values, a protocol value with a line end, or something else.
PreContents == {"", "0", "1", "1\n", "junk"}

\* os.path.exists(path), given whether a file is present at a non-empty
\* path: the empty path names no file.
PathExists(path, present) == path # "" /\ present

---------------------------------------------------------------------------
(* CosmicRayGenerator.__init__ *)

\* A keyword argument is <<>> when the key is not in kwargs, <<v>> when given.
NotGiven == <<>>

\* kwargs.get(key, default)
KwGet(kw, key, default) == IF kw[key] = NotGiven THEN default ELSE kw[key][1]

\* not kwargs.get(key): the key is missing or its value is the empty string.
KwFalsy(kw, key) == kw[key] = NotGiven \/ kw[key][1] = ""

\* `if mode not in [...]`; DocstringModes is the variant that takes the
\* docstring's mode names ("hardware") for the list.
DocstringModes == {"simulated", "hardware", "predefined", "file"}
ValidModes == {"simulated", "hardware_sim", "predefined", "file"}

NoSelf == [mode |-> "<none>", signal_file |-> "<none>", event_log |-> "<none>",
           duration |-> 0, noise_level |-> 0]

Raised(exc, file) == [raised |-> exc, self |-> NoSelf, file |-> file]

\* The validation block: the exception it raises, or "none".
Validate(mode, kw) ==
    IF mode \notin ValidModes THEN "ValueError"
    ELSE IF mode = "file" /\ KwFalsy(kw, "event_log") THEN "ValueError"
    ELSE IF mode = "hardware_sim" /\ KwFalsy(kw, "signal_file") THEN "ValueError"
    ELSE "none"

\* The attribute assignments.  noise_level is kept in hundredths.
Attributes(mode, kw) ==
    [mode        |-> mode,
     signal_file |-> KwGet(kw, "signal_file", "ray_signal.txt"),
     event_log   |-> KwGet(kw, "event_log", "event_log.txt"),
     duration    |-> KwGet(kw, "duration", 10),
     noise_level |-> KwGet(kw, "noise_level", 5)]

\* "ensure the signal file exists": whether the file is to be created.
\* NeverCreate is the variant without that block, CreateInEveryMode the
\* variant without its test of the mode.
NeverCreate(self, file) == FALSE
CreateInEveryMode(self, file) == ~PathExists(self.signal_file, file # Absent)
MustCreate(self, file) ==
    self.mode = "hardware_sim" /\ ~PathExists(self.signal_file, file # Absent)

\* The whole constructor: what it raises, the object, and the signal file
\* it leaves.  open("", "w") raises FileNotFoundError.
GenInit(mode, validate, kw, file) ==
    IF validate /\ Validate(mode, kw) # "none"
    THEN Raised(Validate(mode, kw), file)
    ELSE LET self == Attributes(mode, kw) IN
         IF MustCreate(self, file)
         THEN IF self.signal_file = ""
              THEN Raised("FileNotFoundError", file)
              ELSE [raised |-> "none", self |-> self, file |-> "0"]
         ELSE [raised |-> "none", self |-> self, file |-> file]

\* Configurations the constructor is applied to.
Modes == ValidModes \cup {"hardware"}
OptStr(vals) == {NotGiven} \cup {<<v>> : v \in vals}
KwArgs == [signal_file : OptStr({"", "sig.txt"}),
           event_log   : OptStr({"", "log.txt"}),
           duration    : {NotGiven},
           noise_level : {NotGiven}]

NoCall == [mode |-> "<none>", validate |-> TRUE,
           kw |-> [signal_file |-> NotGiven, event_log |-> NotGiven,
                   duration |-> NotGiven, noise_level |-> NotGiven]]
NoGen == [raised |-> "<uncalled>", self |-> NoSelf]

NoLog == [exists |-> FALSE, lines |-> <<>>]
NoRet == [op |-> "<none>", n |-> 0, raised |-> "<uncalled>", events |-> <<>>]
NoSynth == [pc |-> "uncalled", sample_rate |-> 0, events |-> <<>>, i |-> 0,
            signal_values |-> <<>>, raised |-> "<uncalled>"]
NoKept == [n |-> 0, events |-> <<>>]
NoMark == [at |-> "<clear>", emitted |-> 0]

\* The values of the variables a specification does not exercise.
LoopIdle == /\ pc = "uncalled" /\ callback = FALSE /\ stop_event = "None"
            /\ event = 0 /\ emitted = 0 /\ cbCalls = 0 /\ cbArg = 0
            /\ writes = <<>> /\ mark = NoMark
DetIdle  == dpc = "off" /\ signal = "<unset>" /\ detected = 0 /\ before = FALSE
ReadIdle == logFile = NoLog /\ ret = NoRet /\ synth = NoSynth /\ kept = NoKept

InitPre ==
    /\ sigFile \in {Absent} \cup PreContents
    /\ preFile = sigFile
    /\ args = NoCall
    /\ gen = NoGen
    /\ LoopIdle /\ DetIdle /\ ReadIdle

\* gen = CosmicRayGenerator(mode, validate, **kw)
Construct(mode, validate, kw) ==
    /\ gen = NoGen
    /\ LET r == GenInit(mode, validate, kw, sigFile) IN
         /\ gen' = [raised |-> r.raised, self |-> r.self]
         /\ sigFile' = r.file
    /\ args' = [mode |-> mode, validate |-> validate, kw |-> kw]
    /\ UNCHANGED <<preFile, loopVars, detVars, readVars>>

NextInit == \E mode \in Modes, validate \in BOOLEAN, kw \in KwArgs :
                Construct(mode, validate, kw)

SpecInit == InitPre /\ [][NextInit]_vars

---------------------------------------------------------------------------
(* Claims about the constructor (checked under SpecInit) *)

\* The configuration the spec calls valid.
ValidConfig(a) ==
    /\ a.mode \in {"simulated", "hardware_sim", "predefined", "file"}
    /\ (a.mode = "file" => a.kw.event_log \notin {NotGiven, <<"">>})
    /\ (a.mode = "hardware_sim" => a.kw.signal_file \notin {NotGiven, <<"">>})

C7_MissingSignalFileCreated ==
    /\ (/\ gen # NoGen /\ args.mode = "hardware_sim" /\ preFile = Absent
        /\ \/ args.kw.signal_file \notin {NotGiven, <<"">>}
           \/ (~args.validate /\ args.kw.signal_file = NotGiven))
          => (gen.raised = "none" /\ sigFile = "0")
    /\ (gen.raised = "none" /\ gen.self.mode = "hardware_sim")
          => sigFile # Absent

C7_Witness ==
    /\ gen.raised = "none" /\ gen.self.mode = "hardware_sim"
    /\ preFile = Absent /\ sigFile = "0"

---------------------------------------------------------------------------
(* CosmicRayGenerator.simulate_continuous *)

\* Iterations the model follows (the loop itself is unbounded).
MaxEvents == 2

\* `if stop_event and stop_event.is_set()`; NeverObserved is the variant
\* that does not poll the flag.
NeverObserved(se) == FALSE
StopObserved(se) == se # "None" /\ se = "set"

\* Where the loop goes once the event is generated: `if callback:` first,
\* then `if self.mode == "hardware_sim":`.  PulseBeforeCallback is the
\* variant with the two blocks in the other order.
PulseBeforeCallback(cb, mode) ==
    IF mode = "hardware_sim" THEN "open1" ELSE IF cb THEN "callback" ELSE "print"
AfterEmit(cb, mode) ==
    IF cb THEN "callback" ELSE IF mode = "hardware_sim" THEN "open1" ELSE "print"

\* Where the loop goes once the callback has returned.  RecheckAfterCallback
\* is the variant that examines the stop flag again at this point.
RecheckAfterCallback(mode) == "check"
AfterCallback(mode) == IF mode = "hardware_sim" THEN "open1" ELSE "print"

\* Where the loop goes once the pulse has been held for event["duration"].
\* SkipReset is the variant without the write of "0", CheckAfterHold the
\* variant that polls the stop flag before it.
SkipReset == "print"
CheckAfterHold == "check"
AfterHold == "open0"

\* open(path, "w"): the file is created or truncated; the character written
\* through the handle reaches the file when the with-block closes it.
\* KeepOnOpen is the variant that opens without truncating.
KeepOnOpen(file) == IF file = Absent THEN "" ELSE file
OpenForWrite(file) == ""

\* What the loop may be configured with in Spec: validated configurations.
KwLoop == [signal_file : OptStr({"sig.txt"}),
           event_log   : OptStr({"log.txt"}),
           duration    : {NotGiven},
           noise_level : {NotGiven}]

Init ==
    /\ \E f0 \in {Absent} \cup PreContents, mode \in ValidModes, kw \in KwLoop :
         LET r == GenInit(mode, TRUE, kw, f0) IN
           /\ r.raised = "none"
           /\ preFile = f0
           /\ args = [mode |-> mode, validate |-> TRUE, kw |-> kw]
           /\ gen = [raised |-> r.raised, self |-> r.self]
           /\ sigFile = r.file
    /\ LoopIdle /\ DetIdle /\ ReadIdle

\* gen.simulate_continuous(callback, stop_event) is called.
SimulateContinuous(cb, se) ==
    /\ pc = "uncalled"
    /\ pc' = "check"
    /\ callback' = cb
    /\ stop_event' = se
    /\ mark' = IF se = "set" THEN [at |-> "call", emitted |-> 0] ELSE NoMark
    /\ UNCHANGED <<event, emitted, cbCalls, cbArg, writes>>
    /\ UNCHANGED <<sigFile, preFile, args, gen, detVars, readVars>>

\* line 103-104: the flag is set, break.
CheckStop ==
    /\ pc = "check"
    /\ StopObserved(stop_event)
    /\ pc' = "stopped"
    /\ UNCHANGED <<callback, stop_event, event, emitted, cbCalls, cbArg, writes>>
    /\ UNCHANGED <<sigFile, preFile, args, gen, detVars, readVars, mark>>

\* line 103, 106: the flag is not set, draw wait_time.
CheckContinue ==
    /\ pc = "check"
    /\ ~StopObserved(stop_event)
    /\ emitted < MaxEvents
    /\ pc' = "wait"
    /\ UNCHANGED <<callback, stop_event, event, emitted, cbCalls, cbArg, writes>>
    /\ UNCHANGED <<sigFile, preFile, args, gen, detVars, readVars, mark>>

\* line 107, 109: time.sleep(wait_time) returns, generate_random_event().
\* The event is identified by its ordinal; its duration, energy / 10 with
\* energy in [1, 10], is a positive sleep time.
Emit ==
    /\ pc = "wait"
    /\ emitted' = emitted + 1
    /\ event' = emitted + 1
    /\ pc' = AfterEmit(callback, gen.self.mode)
    /\ UNCHANGED <<callback, stop_event, cbCalls, cbArg, writes>>
    /\ UNCHANGED <<sigFile, preFile, args, gen, detVars, readVars, mark>>

\* line 112: callback(event) is entered.
CallbackCall ==
    /\ pc = "callback"
    /\ cbCalls' = cbCalls + 1
    /\ cbArg' = event
    /\ pc' = "in_callback"
    /\ UNCHANGED <<callback, stop_event, event, emitted, writes>>
    /\ UNCHANGED <<sigFile, preFile, args, gen, detVars, readVars, mark>>

\* line 112: callback(event) returns.
CallbackReturn ==
    /\ pc = "in_callback"
    /\ pc' = AfterCallback(gen.self.mode)
    /\ UNCHANGED <<callback, stop_event, event, emitted, cbCalls, cbArg, writes>>
    /\ UNCHANGED <<sigFile, preFile, args, gen, detVars, readVars, mark>>

\* line 116: open(self.signal_file, "w").
OpenActive ==
    /\ pc = "open1"
    /\ sigFile' = OpenForWrite(sigFile)
    /\ pc' = "write1"
    /\ UNCHANGED <<callback, stop_event, event, emitted, cbCalls, cbArg, writes>>
    /\ UNCHANGED <<preFile, args, gen, detVars, readVars, mark>>

\* line 117: f.write("1") and the close of the with-block.
WriteActive ==
    /\ pc = "write1"
    /\ sigFile' = "1"
    /\ writes' = Append(writes, "1")
    /\ pc' = "hold"
    /\ UNCHANGED <<callback, stop_event, event, emitted, cbCalls, cbArg>>
    /\ UNCHANGED <<preFile, args, gen, detVars, readVars, mark>>

\* line 119: time.sleep(event["duration"]) returns.
Hold ==
    /\ pc = "hold"
    /\ pc' = AfterHold
    /\ UNCHANGED <<callback, stop_event, event, emitted, cbCalls, cbArg, writes>>
    /\ UNCHANGED <<sigFile, preFile, args, gen, detVars, readVars, mark>>

\* line 121: open(self.signal_file, "w").
OpenIdle ==
    /\ pc = "open0"
    /\ sigFile' = OpenForWrite(sigFile)
    /\ pc' = "write0"
    /\ UNCHANGED <<callback, stop_event, event, emitted, cbCalls, cbArg, writes>>
    /\ UNCHANGED <<preFile, args, gen, detVars, readVars, mark>>

\* What line 122 leaves in the truncated file: f.write("0").  StaysActive is
\* the variant that writes "1" again.
StaysActive(file) == "1"
AfterReset(file) == "0"

\* line 122: f.write("0") and the close of the with-block.
WriteIdle ==
    /\ pc = "write0"
    /\ sigFile' = AfterReset(sigFile)
    /\ writes' = Append(writes, AfterReset(sigFile))
    /\ pc' = "print"
    /\ UNCHANGED <<callback, stop_event, event, emitted, cbCalls, cbArg>>
    /\ UNCHANGED <<preFile, args, gen, detVars, readVars, mark>>

\* line 124-126: the status line; back to the top of the loop.
PrintRay ==
    /\ pc = "print"
    /\ pc' = "check"
    /\ UNCHANGED <<callback, stop_event, event, emitted, cbCalls, cbArg, writes>>
    /\ UNCHANGED <<sigFile, preFile, args, gen, detVars, readVars, mark>>

LoopStep ==
    \/ CheckStop \/ CheckContinue \/ Emit \/ CallbackCall \/ CallbackReturn
    \/ OpenActive \/ WriteActive \/ Hold \/ OpenIdle \/ WriteIdle \/ PrintRay

\* The owner of the flag sets it (threading.Event.set).
SetStop ==
    /\ stop_event = "clear"
    /\ pc # "uncalled"
    /\ stop_event' = "set"
    /\ mark' = [at |-> IF pc = "wait" THEN "wait" ELSE "other", emitted |-> emitted]
    /\ UNCHANGED <<pc, callback, event, emitted, cbCalls, cbArg, writes>>
    /\ UNCHANGED <<sigFile, preFile, args, gen, detVars, readVars>>

\* The owner of the flag clears it (threading.Event.clear).
ClearStop ==
    /\ stop_event = "set"
    /\ pc # "uncalled"
    /\ stop_event' = "clear"
    /\ mark' = NoMark
    /\ UNCHANGED <<pc, callback, event, emitted, cbCalls, cbArg, writes>>
    /\ UNCHANGED <<sigFile, preFile, args, gen, detVars, readVars>>

---------------------------------------------------------------------------
(* The detector script: the reset of the signal file, then monitor_rays *)

\* str.strip() on the contents a signal file can hold.
Strip(s) == IF s = "1\n" THEN "1" ELSE s

\* line 12: `if signal == "1":`; NotZero is the variant that takes whatever
\* is not "0" for a pulse.
NotZero(read) == read # "0"
PulseSeen(read) == read = "1"

\* line 17: `if f.read().strip() == "0":`; AnyRead is the variant that does
\* not wait for the "0".
AnyRead(read) == TRUE
PulseOver(read) == read = "0"

\* line 36: the detector script is started and opens the signal file for
\* writing, which creates or truncates it.
DetStart ==
    /\ dpc = "off"
    /\ sigFile' = OpenForWrite(sigFile)
    /\ dpc' = "reset"
    /\ UNCHANGED <<signal, detected, before>>
    /\ UNCHANGED <<preFile, args, gen, loopVars, readVars>>

\* line 37, 39: f.write("0") and the close of the with-block; monitor_rays()
\* is called.
DetReset ==
    /\ dpc = "reset"
    /\ sigFile' = "0"
    /\ before' = (writes = <<>>)
    /\ dpc' = "poll"
    /\ UNCHANGED <<signal, detected>>
    /\ UNCHANGED <<preFile, args, gen, loopVars, readVars>>

\* line 9-12: open, read, strip, compare with "1".  open() of a missing
\* file raises FileNotFoundError, which monitor_rays does not catch.
DetPoll ==
    /\ dpc = "poll"
    /\ IF sigFile = Absent
       THEN dpc' = "crashed" /\ UNCHANGED signal
       ELSE /\ signal' = Strip(sigFile)
            /\ dpc' = IF PulseSeen(Strip(sigFile)) THEN "inner" ELSE "sleep"
    /\ UNCHANGED <<detected, before>>
    /\ UNCHANGED <<sigFile, preFile, args, gen, loopVars, readVars>>

\* line 16-18: open, read, strip, compare with "0".
DetInner ==
    /\ dpc = "inner"
    /\ dpc' = IF sigFile = Absent THEN "crashed"
              ELSE IF PulseOver(Strip(sigFile)) THEN "report" ELSE "inner_sleep"
    /\ UNCHANGED <<signal, detected, before>>
    /\ UNCHANGED <<sigFile, preFile, args, gen, loopVars, readVars>>

\* line 19: time.sleep(0.001) returns.
DetInnerSleep ==
    /\ dpc = "inner_sleep"
    /\ dpc' = "inner"
    /\ UNCHANGED <<signal, detected, before>>
    /\ UNCHANGED <<sigFile, preFile, args, gen, loopVars, readVars>>

\* line 21-27: "Ray detected!".
DetReport ==
    /\ dpc = "report"
    /\ detected <= MaxEvents
    /\ detected' = detected + 1
    /\ dpc' = "sleep"
    /\ UNCHANGED <<signal, before>>
    /\ UNCHANGED <<sigFile, preFile, args, gen, loopVars, readVars>>

\* line 29: time.sleep(0.01) returns.
DetSleep ==
    /\ dpc = "sleep"
    /\ dpc' = "poll"
    /\ UNCHANGED <<signal, detected, before>>
    /\ UNCHANGED <<sigFile, preFile, args, gen, loopVars, readVars>>

\* line 31-32: KeyboardInterrupt, "Stopped."
DetInterrupt ==
    /\ dpc \in {"poll", "inner", "inner_sleep", "report", "sleep"}
    /\ dpc' = "stopped"
    /\ UNCHANGED <<signal, detected, before>>
    /\ UNCHANGED <<sigFile, preFile, args, gen, loopVars, readVars>>

DetStep ==
    \/ DetStart \/ DetReset \/ DetPoll \/ DetInner \/ DetInnerSleep \/ DetReport
    \/ DetSleep \/ DetInterrupt

Next ==
    \/ \E cb \in BOOLEAN, se \in {"None", "clear", "set"} :
          SimulateContinuous(cb, se)
    \/ LoopStep
    \/ SetStop
    \/ ClearStop
    \/ DetStep

Spec == Init /\ [][Next]_vars

\* The thread running the loop keeps being scheduled, and every sleep and
\* every callback invocation returns.
FairSpec == Spec /\ WF_vars(LoopStep)

---------------------------------------------------------------------------
(* Claims about the loop and the signal file (checked under Spec) *)

HardwareSim == gen.self.mode = "hardware_sim"

\* The loop is between an open-for-write and the write of the character.
InTransition == pc \in {"write1", "write0"}

\* The detector script is between the open-for-write and the write of its
\* initial "0".
Resetting == dpc = "reset"

\* C2 as stated: in hardware_sim mode the signal file holds exactly "0" or
\* exactly "1" at every moment after construction, and so does whatever a
\* polling detector reads from it.
C2_AlwaysZeroOrOne ==
    HardwareSim => (sigFile \in {"0", "1"} /\ signal \in {"<unset>", "0", "1"})

\* C2 (amended): in hardware_sim mode the signal file holds exactly "0" or
\* "1", except that it is empty between an open-for-write and the write of
\* the character (by the loop at each transition, by the detector script
\* when it starts), and that a file which existed before construction keeps
\* what it held until the first such open; a polling detector reads "0",
\* "1" or the empty string.
C2_SignalFileContents ==
    HardwareSim =>
        /\ (InTransition /\ dpc = "off") => sigFile = ""
        /\ (~InTransition /\ writes = <<>> /\ dpc = "off") =>
               sigFile = (IF preFile = Absent THEN "0" ELSE preFile)
        /\ (~InTransition /\ ~Resetting /\ (writes # <<>> \/ dpc # "off")) =>
               sigFile \in {"0", "1"}
        /\ (InTransition \/ Resetting) => sigFile \in {"", "0", "1"}
        /\ signal \in {"<unset>", "", "0", "1"}

C2_Witness ==
    /\ HardwareSim /\ preFile = Absent
    /\ pc = "write1" /\ sigFile = "" /\ signal = ""

Odd(n) == n % 2 = 1

\* C3: the loop's writes to the signal file strictly alternate, starting
\* with "1": "1", hold, "0" for each event, and the "1" of the next event
\* only after the "0" of this one.
C3_WritesAlternate ==
    /\ \A i \in 1..Len(writes) : writes[i] = (IF Odd(i) THEN "1" ELSE "0")
    /\ Odd(Len(writes)) <=> pc \in {"hold", "open0", "write0"}
    /\ HardwareSim =>
         Len(writes) = (IF pc \in {"callback", "in_callback", "open1", "write1"}
                        THEN 2 * (emitted - 1)
                        ELSE IF pc \in {"hold", "open0", "write0"}
                        THEN 2 * emitted - 1
                        ELSE 2 * emitted)

C3_Witness == writes = <<"1", "0", "1", "0">>

\* C4: with a callback supplied, the callback is invoked with each emitted
\* event and has returned before "1" is written for that event; it is
\* invoked exactly once per event and never while the loop holds the
\* channel at "1".
C4_CallbackBeforePulse ==
    callback =>
        /\ cbCalls = (IF pc = "callback" THEN emitted - 1 ELSE emitted)
        /\ cbCalls > 0 => cbArg = cbCalls
        /\ pc \in {"in_callback", "open1", "write1", "hold", "open0", "write0",
                   "print"} => cbArg = event
        /\ pc \in {"callback", "in_callback"} =>
               /\ ~Odd(Len(writes))
               /\ writes # <<>> => (sigFile = "0" \/ (Resetting /\ sigFile = ""))
        /\ (HardwareSim /\ pc \in {"callback", "in_callback"}) =>
               Len(writes) = 2 * (emitted - 1)
        /\ HardwareSim =>
               (Len(writes) + 1) \div 2 <=
                   (IF pc = "in_callback" THEN cbCalls - 1 ELSE cbCalls)

C4_Witness ==
    /\ callback /\ HardwareSim
    /\ pc = "hold" /\ sigFile = "1" /\ cbCalls = 2 /\ cbArg = 2 /\ event = 2

\* C5: once the loop has written "1" for an event it writes "0" for that
\* event before it next examines the stop flag or returns, so a stop flag
\* set during a pulse never leaves the channel at "1".
C5_PulseCompletes ==
    pc \in {"check", "stopped"} =>
        /\ ~Odd(Len(writes))
        /\ HardwareSim => Len(writes) = 2 * emitted
        /\ writes # <<>> =>
               /\ sigFile = "0" \/ (Resetting /\ sigFile = "")
               /\ writes[Len(writes)] = "0"

C5_Witness ==
    /\ pc = "stopped" /\ HardwareSim /\ sigFile = "0"
    /\ emitted = 1 /\ writes = <<"1", "0">>

\* C6: once the stop flag is set and stays set, simulate_continuous
\* returns; it returns only on observing the flag set at the top of the
\* loop; and while it runs with the flag not set it goes on emitting
\* events (as far as MaxEvents follows it).
C6_StopsWhenFlagStaysSet ==
    /\ (<>[](pc # "uncalled" /\ stop_event = "set")) => <>(pc = "stopped")
    /\ [][(pc # "stopped" /\ pc' = "stopped") =>
              (pc = "check" /\ stop_event = "set")]_vars
    /\ (pc \notin {"uncalled", "stopped"}) ~>
           (emitted = MaxEvents \/ stop_event = "set")

C6_Witness == pc = "stopped" /\ stop_event = "set" /\ emitted = 1

---------------------------------------------------------------------------
(* Text: str.strip, str.split and float over the characters of a log line *)

\* A line is a tuple of characters; a file is a tuple of lines, each read
\* back by readlines() with its line end.
DigitChars == <<"0", "1", "2", "3", "4", "5", "6", "7", "8", "9">>
Digits == {DigitChars[i] : i \in 1..Len(DigitChars)}
Whitespace == {" ", "\t", "\n"}

DigitVal(c) == (CHOOSE i \in 1..Len(DigitChars) : DigitChars[i] = c) - 1

RECURSIVE LStrip(_)
LStrip(s) == IF s # <<>> /\ s[1] \in Whitespace THEN LStrip(Tail(s)) ELSE s

RECURSIVE RStrip(_)
RStrip(s) == IF s # <<>> /\ s[Len(s)] \in Whitespace
             THEN RStrip(SubSeq(s, 1, Len(s) - 1)) ELSE s

\* line.strip()
StripLine(s) == RStrip(LStrip(s))

RECURSIVE SplitAcc(_, _, _)
SplitAcc(s, cur, out) ==
    IF s = <<>> THEN (IF cur = <<>> THEN out ELSE Append(out, cur))
    ELSE IF s[1] \in Whitespace
         THEN SplitAcc(Tail(s), <<>>, IF cur = <<>> THEN out ELSE Append(out, cur))
         ELSE SplitAcc(Tail(s), Append(cur, s[1]), out)

\* str.split() with no separator: the runs of non-whitespace characters.
Split(s) == SplitAcc(s, <<>>, <<>>)

\* A float is kept as a decimal fraction num / den in lowest decimal form
\* (den a power of ten, num not a multiple of ten unless den = 1).
RECURSIVE Normal(_, _)
Normal(num, den) ==
    IF num = 0 THEN [num |-> 0, den |-> 1]
    ELSE IF den > 1 /\ num % 10 = 0 THEN Normal(num \div 10, den \div 10)
    ELSE [num |-> num, den |-> den]

Rat(n) == [num |-> n, den |-> 1]

RECURSIVE DecVal(_)
DecVal(ds) == IF ds = <<>> THEN 0
              ELSE DecVal(SubSeq(ds, 1, Len(ds) - 1)) * 10 + DigitVal(ds[Len(ds)])

RECURSIVE Pow10(_)
Pow10(k) == IF k = 0 THEN 1 ELSE 10 * Pow10(k - 1)

Unsigned(tok) == IF tok # <<>> /\ tok[1] = "-" THEN Tail(tok) ELSE tok

\* Whether float(tok) returns: an optional sign, digits with at most one
\* point, at least one digit (the characters of the model have no exponent,
\* underscore, "inf" or "nan").
IsFloat(tok) ==
    LET body == Unsigned(tok) IN
      /\ \A i \in 1..Len(body) : body[i] \in Digits \cup {"."}
      /\ Cardinality({i \in 1..Len(body) : body[i] = "."}) <= 1
      /\ \E i \in 1..Len(body) : body[i] \in Digits

\* float(tok), for a token float accepts.
FloatVal(tok) ==
    LET body   == Unsigned(tok)
        digits == SelectSeq(body, LAMBDA c : c # ".")
        dot    == {i \in 1..Len(body) : body[i] = "."}
        places == IF dot = {} THEN 0 ELSE Len(body) - (CHOOSE i \in dot : TRUE)
        sign   == IF tok[1] = "-" THEN -1 ELSE 1
    IN Normal(sign * DecVal(digits), Pow10(places))

---------------------------------------------------------------------------
(* CosmicRayGenerator.read_events_from_file and get_events *)

\* Lines of a log: the length of the longest file, and the calls followed.
MaxLines == 3
MaxCalls == 2

LogLines ==
    { <<"t", " ", "x">>,                          \* a header
      <<"1", ".", "0", " ", "2", ".", "3">>,      \* time energy
      <<"4", ".", "5", "\t", "1", ".", "5">>,     \* tab-separated
      <<"6", " ", "3", " ", "2", "7", "0", "0">>, \* with an altitude
      <<"-", "1", " ", "2">>,                     \* a negative time
      <<" ", "3", " ", " ", "4", " ">>,           \* padded
      <<"8", " ", "2", " ", "5", " ", "x">>,      \* a fourth field
      <<"7">>,                                    \* one field
      <<"x", " ", "2">>,                          \* non-numeric time
      <<"1", " ", "2", " ", "x">>,                \* non-numeric altitude
      <<"1", ",", "2">>,                          \* comma-separated
      <<>> }                                      \* blank

LogFiles == UNION {[1..n -> LogLines] : n \in 0..MaxLines}

\* file.readlines()
ReadLines(file) == [i \in 1..Len(file) |-> file[i] \o <<"\n">>]

\* `if len(parts) >= 2`; NeedsThreeFields is the variant with `> 2`.
NeedsThreeFields(parts) == Len(parts) > 2
HasFields(parts) == Len(parts) >= 2

\* The try block: the record appended, or the exception float() raises.
TryParse(parts) ==
    IF ~IsFloat(parts[1]) THEN [raised |-> "ValueError"]
    ELSE IF ~IsFloat(parts[2]) THEN [raised |-> "ValueError"]
    ELSE IF Len(parts) > 2 /\ ~IsFloat(parts[3]) THEN [raised |-> "ValueError"]
    ELSE [raised |-> "none",
          record |-> [time     |-> FloatVal(parts[1]),
                      energy   |-> FloatVal(parts[2]),
                      altitude |-> IF Len(parts) > 2 THEN FloatVal(parts[3])
                                   ELSE Rat(0)]]

\* `for line in ...:` with `except (ValueError, IndexError): pass`
RECURSIVE ParseLines(_, _)
ParseLines(lines, events) ==
    IF lines = <<>> THEN events
    ELSE LET parts == Split(StripLine(Head(lines))) IN
         ParseLines(Tail(lines),
                    IF HasFields(parts)
                    THEN LET r == TryParse(parts) IN
                         IF r.raised \in {"ValueError", "IndexError"}
                         THEN events ELSE Append(events, r.record)
                    ELSE events)

\* lines[1:]
SkipHeader(lines) == SubSeq(lines, 2, Len(lines))

\* `if not os.path.exists(self.event_log):`; LogNeverMissing is the variant
\* without the test.
LogNeverMissing(self, log) == FALSE
LogMissing(self, log) == ~PathExists(self.event_log, log.exists)

\* read_events_from_file: what it raises and returns.  open(path, "r")
\* raises FileNotFoundError for a path with no file.
ReadEvents(self, log) ==
    IF LogMissing(self, log) THEN [raised |-> "none", events |-> <<>>]
    ELSE IF self.event_log = "" \/ ~log.exists
    THEN [raised |-> "FileNotFoundError", events |-> <<>>]
    ELSE [raised |-> "none",
          events |-> ParseLines(SkipHeader(ReadLines(log.lines)), <<>>)]

\* get_predefined_events; altitude in metres.
PredefinedEvents ==
    << [time |-> Normal(10, 10), energy |-> Normal(23, 10), altitude |-> Rat(2500)],
       [time |-> Normal(45, 10), energy |-> Normal(15, 10), altitude |-> Rat(2300)],
       [time |-> Normal(62, 10), energy |-> Normal(30, 10), altitude |-> Rat(2700)],
       [time |-> Normal(87, 10), energy |-> Normal(20, 10), altitude |-> Rat(2400)] >>

\* What random.uniform draws for one event: an energy in [1, 10] and an
\* altitude in [2000, 3000].
Draws == <<[energy |-> 1, altitude |-> 2000], [energy |-> 10, altitude |-> 3000]>>

\* generate_random_event with `time` reassigned to i * (duration / 10).
SimulatedEvent(self, i, d) ==
    [time     |-> Normal(i * self.duration, 10),
     energy   |-> Rat(d.energy),
     duration |-> Normal(d.energy, 10),
     altitude |-> Rat(d.altitude)]

\* get_events, given what the random module draws in simulated mode.
GetEventsResult(self, log, draws) ==
    IF self.mode = "predefined" THEN [raised |-> "none", events |-> PredefinedEvents]
    ELSE IF self.mode = "file" THEN ReadEvents(self, log)
    ELSE IF self.mode = "simulated"
    THEN [raised |-> "none",
          events |-> [i \in 1..Len(draws) |-> SimulatedEvent(self, i - 1, draws[i])]]
    ELSE [raised |-> "none", events |-> <<>>]

\* random.randint(3, 8) events, each with its draws: the draws of one call
\* are all low, all high, or alternate.
SimDraws ==
    {[i \in 1..n |-> Draws[IF k = 0 THEN 1 + ((i + j) % 2) ELSE k]] :
         n \in 3..8, k \in 0..2, j \in 0..1}

\* Generators reading a log: file mode over every log, the other modes over
\* the logs of at most one line.
KwRead == [signal_file : {NotGiven},
           event_log   : OptStr({"", "log.txt"}),
           duration    : {NotGiven},
           noise_level : {NotGiven}]

InitRead ==
    /\ \E mode \in ValidModes, validate \in BOOLEAN, kw \in KwRead :
         LET r == GenInit(mode, validate, kw, Absent) IN
           /\ r.raised = "none"
           /\ preFile = Absent
           /\ args = [mode |-> mode, validate |-> validate, kw |-> kw]
           /\ gen = [raised |-> r.raised, self |-> r.self]
           /\ sigFile = r.file
           /\ logFile \in {NoLog} \cup
                 {[exists |-> TRUE, lines |-> f] :
                      f \in {g \in LogFiles : mode = "file" \/ Len(g) <= 1}}
    /\ ret = NoRet /\ synth = NoSynth /\ kept = NoKept
    /\ LoopIdle /\ DetIdle

\* events = gen.read_events_from_file()
ReadEventsFromFile ==
    /\ ret.n < MaxCalls
    /\ LET r == ReadEvents(gen.self, logFile) IN
         ret' = [op |-> "read_events_from_file", n |-> ret.n + 1,
                 raised |-> r.raised, events |-> r.events]
    /\ UNCHANGED <<logFile, synth, kept, sigFile, preFile, args, gen, loopVars, detVars>>

\* The variant of get_events that rescales self.duration in place where the
\* code computes self.duration / 10.
GetEventsRescaling(draws) ==
    /\ ret.n < MaxCalls
    /\ LET r == GetEventsResult(gen.self, logFile, draws) IN
         ret' = [op |-> "get_events", n |-> ret.n + 1,
                 raised |-> r.raised, events |-> r.events]
    /\ gen' = IF gen.self.mode = "simulated"
              THEN [gen EXCEPT !.self.duration = @ \div 10] ELSE gen
    /\ UNCHANGED <<logFile, synth, kept, sigFile, preFile, args, loopVars, detVars>>

\* events = gen.get_events()
GetEvents(draws) ==
    /\ ret.n < MaxCalls
    /\ LET r == GetEventsResult(gen.self, logFile, draws) IN
         ret' = [op |-> "get_events", n |-> ret.n + 1,
                 raised |-> r.raised, events |-> r.events]
    /\ UNCHANGED <<logFile, synth, kept, sigFile, preFile, args, gen, loopVars, detVars>>

NextRead ==
    \/ ReadEventsFromFile
    \/ \E draws \in (IF gen.self.mode = "simulated" THEN SimDraws ELSE {<<>>}) :
          GetEvents(draws)

SpecRead == InitRead /\ [][NextRead]_vars

---------------------------------------------------------------------------
(* Claims about reading the event log (checked under SpecRead) *)

\* No file is at the configured event_log path.
LogAbsent == ~logFile.exists \/ gen.self.event_log = ""

\* The latest call read the log: read_events_from_file, or get_events in
\* file mode.
ReadCall(r) ==
    \/ r.op = "read_events_from_file"
    \/ (r.op = "get_events" /\ gen.self.mode = "file")

\* C8: when no file is at the event_log path, read_events_from_file (and
\* get_events in file mode) returns an empty list, raises nothing and
\* creates no file, on every call.
C8_MissingLogReadsEmpty ==
    [][(LogAbsent /\ ret'.n = ret.n + 1 /\ ReadCall(ret')) =>
          (ret'.raised = "none" /\ ret'.events = <<>> /\ logFile' = logFile)]_vars

C8_Witness ==
    /\ gen.self.mode = "file" /\ gen.self.event_log = "log.txt" /\ ~logFile.exists
    /\ ret.op = "get_events" /\ ret.n = 2
    /\ ret.raised = "none" /\ ret.events = <<>>

\* A line with at least two fields of which the first two, and the third
\* if present, are numeric.
WellFormed(line) ==
    LET f == Split(StripLine(line)) IN
      /\ Len(f) >= 2
      /\ IsFloat(f[1]) /\ IsFloat(f[2])
      /\ Len(f) >= 3 => IsFloat(f[3])

\* The record of a well-formed line.
RecordOf(line) ==
    LET f == Split(StripLine(line)) IN
      [time     |-> FloatVal(f[1]),
       energy   |-> FloatVal(f[2]),
       altitude |-> IF Len(f) >= 3 THEN FloatVal(f[3]) ELSE [num |-> 0, den |-> 1]]

\* The records of the well-formed lines among lines[first..], in file order.
RecordsFrom(lines, first) ==
    LET good == {i \in first..Len(lines) : WellFormed(lines[i])}
        nth(k) == CHOOSE i \in good : Cardinality({j \in good : j <= i}) = k
    IN [k \in 1..Cardinality(good) |-> RecordOf(lines[nth(k)])]

ReadDone == ret.op = "read_events_from_file" /\ ~LogAbsent

\* The spec's scenario: a header, "1.0 2.3" and "4.5 1.5" (tab-separated).
ScenarioLog ==
    << <<"t", " ", "x">>,
       <<"1", ".", "0", " ", "2", ".", "3">>,
       <<"4", ".", "5", "\t", "1", ".", "5">> >>
ScenarioEvents ==
    << [time |-> [num |-> 1, den |-> 1], energy |-> [num |-> 23, den |-> 10],
        altitude |-> [num |-> 0, den |-> 1]],
       [time |-> [num |-> 45, den |-> 10], energy |-> [num |-> 15, den |-> 10],
        altitude |-> [num |-> 0, den |-> 1]] >>

\* C9: read_events_from_file returns, in file order, exactly one record per
\* well-formed line after the header, with altitude 0 when the line has no
\* third field; every other data line is dropped without raising and
\* without stopping the parse.
C9_RecordsOfWellFormedLines ==
    /\ ReadDone =>
          (ret.raised = "none" /\ ret.events = RecordsFrom(logFile.lines, 2))
    /\ (ReadDone /\ logFile.lines = ScenarioLog) => ret.events = ScenarioEvents

C9_Witness ==
    /\ ReadDone /\ Len(logFile.lines) = 3
    /\ ~WellFormed(logFile.lines[2]) /\ Len(Split(logFile.lines[2])) >= 2
    /\ WellFormed(logFile.lines[3]) /\ Len(Split(logFile.lines[3])) = 2
    /\ Len(ret.events) = 1 /\ ret.events[1].altitude = [num |-> 0, den |-> 1]

\* C10 as stated: the first line is skipped only if it is a header; when
\* the first line is a well-formed event line it is returned like every
\* other well-formed line.
C10_FirstEventLineKept ==
    (ReadDone /\ logFile.lines # <<>> /\ WellFormed(logFile.lines[1])) =>
        ret.events = RecordsFrom(logFile.lines, 1)

---------------------------------------------------------------------------
(* generate_signal *)

(* Sample values are real numbers.  A sample is kept exactly, as its       *)
(* baseline `base` (noise level plus jitter, in thousandths) and, for each *)
(* offset k into a decay window, the coefficient pulse[k + 1] of           *)
(* exp(-k / (0.02 * sample_rate)): the sample's value is                   *)
(*   base / 1000 + SUM_k pulse[k + 1] * exp(-k / (0.02 * sample_rate)).    *)
(* Two samples are equal as reals exactly when these components are.       *)
(* Products time * sample_rate are exact for the inputs below, as they are *)
(* in binary floating point for these inputs.                              *)

MaxPulses == 2

Min2(a, b) == IF a <= b THEN a ELSE b
Max2(a, b) == IF a >= b THEN a ELSE b

\* int(num / den) for den > 0: truncation toward zero.
Trunc(num, den) == IF num >= 0 THEN num \div den ELSE -((-num) \div den)

RatAdd(x, y) == Normal(x.num * y.den + y.num * x.den, x.den * y.den)

\* len(np.arange(0, duration, 1 / sample_rate)), duration in whole seconds.
SampleCount(duration, sample_rate) == Max2(duration * sample_rate, 0)

\* np.random.uniform(-0.01, 0.01) for sample j, in thousandths: the jitter
\* of one call is all zero or alternates around zero.
JitterPatterns == 0..2
JitterAt(p, j) == IF p = 0 THEN 0 ELSE IF (j + p) % 2 = 0 THEN 5 ELSE -5

\* signal_values before the events are applied; noise_level is in hundredths.
Baseline(self, sample_rate, p) ==
    [j \in 1..SampleCount(self.duration, sample_rate) |->
        [base  |-> 10 * self.noise_level + JitterAt(p, j),
         pulse |-> [k \in 1..Trunc(sample_rate, 10) |-> Rat(0)]]]

\* idx = int(event["time"] * sample_rate); UnscaledIndex is the variant
\* that leaves out the sample rate.
UnscaledIndex(time, sample_rate) == Trunc(time.num, time.den)
StartIndex(time, sample_rate) == Trunc(time.num * sample_rate, time.den)

\* `if idx < len(signal_values):`
InRange(idx, n) == idx < n

\* decay_length = int(0.1 * sample_rate)
DecayLength(sample_rate) == Trunc(sample_rate, 10)

\* end_idx = min(idx + decay_length, len(signal_values)); Unclamped is the
\* variant without the min.
Unclamped(idx, decay_length, n) == idx + decay_length
EndIndex(idx, decay_length, n) == Min2(idx + decay_length, n)

\* len(np.arange(m)): no elements for m <= 0.
ArangeLen(m) == Max2(m, 0)

\* A slice bound i of a[start:end] on an array of n elements: negative
\* bounds count from the end, and bounds are clipped to 0..n.
SliceBound(i, n) == IF i < 0 THEN Max2(i + n, 0) ELSE Min2(i, n)

\* sample += energy * exp(-k / (0.02 * sample_rate))
AddAt(sample, k, energy) ==
    [sample EXCEPT !.pulse[k + 1] = RatAdd(@, energy)]

\* signal_values[idx:end_idx] += decay, where decay has
\* len(np.arange(end_idx - idx)) elements: element-wise when the slice has
\* as many elements, a one-element decay is broadcast over the slice, and
\* any other pair of shapes raises ValueError.
AddDecay(values, idx, end_idx, energy) ==
    LET n  == Len(values)
        m  == ArangeLen(end_idx - idx)
        lo == SliceBound(idx, n)
        hi == SliceBound(end_idx, n)
        l  == Max2(hi - lo, 0)
    IN IF l = m \/ m = 1
       THEN [raised |-> "none",
             values |-> [j \in 1..n |->
                            IF j - 1 >= lo /\ j - 1 < hi
                            THEN AddAt(values[j], IF l = m THEN j - 1 - lo ELSE 0,
                                       energy)
                            ELSE values[j]]]
       ELSE [raised |-> "ValueError", values |-> values]

\* The body of `for event in events:`.
ApplyEvent(values, e, sample_rate) ==
    LET idx == StartIndex(e.time, sample_rate)
        n   == Len(values)
    IN IF InRange(idx, n)
       THEN AddDecay(values, idx, EndIndex(idx, DecayLength(sample_rate), n),
                     e.energy)
       ELSE [raised |-> "none", values |-> values]

\* Sample rates the signal is synthesized at: decay windows of one and of
\* two samples.
SampleRates == {10, 20}

\* Event lines of the logs a signal is synthesized from.
SignalLines ==
    { <<"0", " ", "2">>,                          \* at the first sample
      <<"0", ".", "5", " ", "1">>,
      <<"0", ".", "5", "5", " ", "3">>,           \* overlaps the line above
      <<"1", ".", "9", "5", " ", "4">>,           \* at or past the array end
      <<"0", ".", "5", " ", "-", "2">>,           \* a negative energy
      <<"0", ".", "5", " ", "0">>,                \* a zero energy
      <<"-", "0", ".", "5", " ", "1">>,           \* a negative time
      <<"-", "0", ".", "0", "5", " ", "1">> }     \* a negative time near zero

SignalLogs ==
    {<<<<"t", " ", "x">>>> \o f :
        f \in UNION {[1..n -> SignalLines] : n \in 0..MaxPulses}}

\* Generators a signal is synthesized for: file mode over every signal log,
\* the other modes over a log of a header only; one or two seconds long.
KwOps == [signal_file : {<<"sig.txt">>},
          event_log   : {<<"log.txt">>},
          duration    : {<<1>>, <<2>>},
          noise_level : {NotGiven, <<0>>}]

\* The signal file before construction: missing, or left active.
OpsFiles == {Absent, "1"}

InitOps ==
    /\ \E f0 \in OpsFiles, mode \in ValidModes, kw \in KwOps :
         LET r == GenInit(mode, TRUE, kw, f0) IN
           /\ r.raised = "none"
           /\ preFile = f0
           /\ args = [mode |-> mode, validate |-> TRUE, kw |-> kw]
           /\ gen = [raised |-> r.raised, self |-> r.self]
           /\ sigFile = r.file
           /\ logFile \in {NoLog} \cup
                 {[exists |-> TRUE, lines |-> f] :
                      f \in {g \in SignalLogs : mode = "file" \/ Len(g) <= 1}}
    /\ ret = NoRet /\ synth = NoSynth /\ kept = NoKept
    /\ LoopIdle /\ DetIdle

\* The draws of the get_events call inside generate_signal: the fewest and
\* the most events, all low.
SignalDraws == {[i \in 1..n |-> Draws[1]] : n \in {3, 8}}

\* generate_signal(sample_rate) up to the event loop: the time base, the
\* noisy baseline and the events.
GenerateSignal(sample_rate, p, draws) ==
    /\ synth.pc = "uncalled"
    /\ LET r == GetEventsResult(gen.self, logFile, draws) IN
         synth' = IF r.raised # "none"
                  THEN [NoSynth EXCEPT !.pc = "raised", !.raised = r.raised,
                                       !.sample_rate = sample_rate]
                  ELSE [pc |-> "loop", sample_rate |-> sample_rate,
                        events |-> r.events, i |-> 1,
                        signal_values |-> Baseline(gen.self, sample_rate, p),
                        raised |-> "none"]
    /\ UNCHANGED <<logFile, ret, kept, sigFile, preFile, args, gen, loopVars,
                   detVars>>

\* One iteration of `for event in events:`.
SignalStep ==
    /\ synth.pc = "loop" /\ synth.i <= Len(synth.events)
    /\ LET r == ApplyEvent(synth.signal_values, synth.events[synth.i],
                           synth.sample_rate) IN
         synth' = IF r.raised = "none"
                  THEN [synth EXCEPT !.i = @ + 1, !.signal_values = r.values]
                  ELSE [synth EXCEPT !.pc = "raised", !.raised = r.raised]
    /\ UNCHANGED <<logFile, ret, kept, sigFile, preFile, args, gen, loopVars,
                   detVars>>

\* return time_values, signal_values
SignalReturn ==
    /\ synth.pc = "loop" /\ synth.i > Len(synth.events)
    /\ synth' = [synth EXCEPT !.pc = "done"]
    /\ UNCHANGED <<logFile, ret, kept, sigFile, preFile, args, gen, loopVars,
                   detVars>>

\* time.time(): the wall clock, in seconds.
Clock == {1762300800, 1762300801}

\* generate_random_event, given the clock and what random.uniform draws.
RandomEvent(d, now) ==
    [time     |-> Rat(now),
     energy   |-> Rat(d.energy),
     duration |-> Normal(d.energy, 10),
     altitude |-> Rat(d.altitude)]

\* event = gen.generate_random_event()
GenerateRandomEvent(d, now) ==
    /\ ret.n < MaxCalls
    /\ ret' = [op |-> "generate_random_event", n |-> ret.n + 1,
               raised |-> "none", events |-> <<RandomEvent(d, now)>>]
    /\ UNCHANGED <<logFile, synth, kept, sigFile, preFile, args, gen, loopVars,
                   detVars>>

\* `return [{...}, {...}, {...}, {...}]`: the list display builds a new
\* list of new records at every call, whatever became of the lists returned
\* before.  SharedList is the variant that returns one list object, in
\* which the changes of the caller show.
SharedList(held) == IF held = NoKept THEN PredefinedEvents ELSE held.events
FreshList(held) == PredefinedEvents

\* events = gen.get_predefined_events()
GetPredefinedEvents ==
    /\ ret.n < MaxCalls
    /\ ret' = [op |-> "get_predefined_events", n |-> ret.n + 1,
               raised |-> "none", events |-> FreshList(kept)]
    /\ UNCHANGED <<logFile, synth, kept, sigFile, preFile, args, gen, loopVars,
                   detVars>>

\* What a caller may do to a list it was handed: events.clear(),
\* events.pop(0), events[0]["energy"] = 0.
Changes == {"clear", "pop", "edit"}
Changed(events, change) ==
    IF change = "clear" THEN <<>>
    ELSE IF change = "pop" THEN Tail(events)
    ELSE [events EXCEPT ![1].energy = Rat(0)]

\* The caller changes the list the latest call returned.
ChangeReturned(change) ==
    /\ kept = NoKept
    /\ ret.op \in {"get_predefined_events", "get_events"}
    /\ ret.raised = "none" /\ ret.events # <<>>
    /\ kept' = [n |-> ret.n, events |-> Changed(ret.events, change)]
    /\ UNCHANGED <<logFile, ret, synth, sigFile, preFile, args, gen, loopVars,
                   detVars>>

\* A behaviour exercises generate_signal, or the other data methods, or
\* simulate_continuous (which does not return before it is stopped): no
\* method reads what another one leaves behind.
NextOps ==
    \/ /\ pc = "uncalled" /\ ret = NoRet
       /\ \/ \E sample_rate \in SampleRates, p \in JitterPatterns,
                draws \in (IF gen.self.mode = "simulated" THEN SignalDraws
                           ELSE {<<>>}) :
                GenerateSignal(sample_rate, p, draws)
          \/ SignalStep
          \/ SignalReturn
    \/ /\ pc = "uncalled" /\ synth = NoSynth
       /\ \/ ReadEventsFromFile
          \/ \E draws \in (IF gen.self.mode = "simulated" THEN SignalDraws
                           ELSE {<<>>}) : GetEvents(draws)
          \/ GetPredefinedEvents
          \/ \E d \in {Draws[1], Draws[2]}, now \in Clock :
                GenerateRandomEvent(d, now)
          \/ \E change \in Changes : ChangeReturned(change)
    \/ /\ ret = NoRet /\ synth = NoSynth
       /\ \/ \E cb \in BOOLEAN, se \in {"None", "clear", "set"} :
                SimulateContinuous(cb, se)
          \/ LoopStep
          \/ SetStop
          \/ ClearStop

SpecOps == InitOps /\ [][NextOps]_vars

---------------------------------------------------------------------------
(* Claims about generate_signal *)

\* An iteration of the event loop is taken, on CurEvent.
Stepping == synth.pc = "loop" /\ synth.i <= Len(synth.events) /\ synth' # synth
CurEvent == synth.events[synth.i]
SignalLen == Len(synth.signal_values)

\* floor(time * sample_rate)
FloorIndex(e) == (e.time.num * synth.sample_rate) \div e.time.den

\* time * sample_rate >= len(signal)
PastEnd(e) == e.time.num * synth.sample_rate >= SignalLen * e.time.den

\* C11: an event whose start index time * sample_rate is at or past the end
\* of the signal array changes no sample and raises nothing, and the loop
\* goes on to the next event.
C11_PastEndEventsDropped ==
    [][(Stepping /\ PastEnd(CurEvent)) =>
          /\ synth'.signal_values = synth.signal_values
          /\ synth'.raised = "none" /\ synth'.pc = "loop"
          /\ synth'.i = synth.i + 1]_vars

C11_Witness ==
    /\ synth.pc = "done" /\ Len(synth.events) = 2
    /\ PastEnd(synth.events[1])
    /\ synth.events[2].time = Rat(0) /\ synth.events[2].energy # Rat(0)
    /\ synth.signal_values[1].pulse[1] = synth.events[2].energy

\* The events whose decay window, starting at an in-bounds index
\* floor(time * sample_rate), covers sample j (from 0) at offset k.
Covering(j, k) ==
    {i \in 1..Len(synth.events) :
        /\ FloorIndex(synth.events[i]) = j - k
        /\ FloorIndex(synth.events[i]) >= 0}

RECURSIVE SumEnergy(_)
SumEnergy(is) ==
    IF is = {} THEN Rat(0)
    ELSE LET i == CHOOSE x \in is : TRUE IN
         RatAdd(synth.events[i].energy, SumEnergy(is \ {i}))

\* C12 as stated: once generate_signal has processed the events, the pulse
\* part of every sample is the sum of the contributions of the events whose
\* decay window covers it, whatever their order, on top of its baseline.
C12_Additive ==
    synth.pc = "done" =>
        \A j \in 1..SignalLen :
            /\ synth.signal_values[j].base - 10 * gen.self.noise_level
                  \in {JitterAt(p, j) : p \in JitterPatterns}
            /\ synth.signal_values[j].pulse =
                  [k \in 1..DecayLength(synth.sample_rate) |->
                      SumEnergy(Covering(j - 1, k - 1))]

\* C13 as stated: an event with energy <= 0 changes no sample.
C13_NonPositiveEnergyIgnored ==
    [][(Stepping /\ CurEvent.energy.num <= 0) =>
          synth'.signal_values = synth.signal_values]_vars

\* C16 as stated: an event whose start index floor(time * sample_rate) is
\* not within 0 .. len(signal) - 1, a negative time in particular, changes
\* no sample.
C16_OnlyInBoundsStart ==
    [][(Stepping /\ (FloorIndex(CurEvent) < 0 \/ FloorIndex(CurEvent) >= SignalLen)) =>
          synth'.signal_values = synth.signal_values]_vars

\* C18: an event starting at an in-bounds index idx adds its decay to the
\* samples idx .. min(idx + decay_length, len) - 1 and leaves every other
\* sample, and the length of the array, as they were; it raises nothing
\* even when the window is cut off at the array end.
C18_WindowFrame ==
    [][(Stepping /\ FloorIndex(CurEvent) >= 0 /\ FloorIndex(CurEvent) < SignalLen) =>
          LET idx == FloorIndex(CurEvent)
              end == Min2(idx + (synth.sample_rate \div 10), SignalLen)
          IN /\ synth'.raised = "none"
             /\ Len(synth'.signal_values) = SignalLen
             /\ \A j \in 1..SignalLen :
                   /\ synth'.signal_values[j].base = synth.signal_values[j].base
                   /\ \A k \in 1..(synth.sample_rate \div 10) :
                         synth'.signal_values[j].pulse[k] =
                            IF j - 1 >= idx /\ j - 1 < end /\ k = j - idx
                            THEN RatAdd(synth.signal_values[j].pulse[k],
                                        CurEvent.energy)
                            ELSE synth.signal_values[j].pulse[k]]_vars

C18_Witness ==
    /\ synth.pc = "done" /\ Len(synth.events) = 1
    /\ synth.sample_rate \div 10 = 2
    /\ FloorIndex(synth.events[1]) = SignalLen - 1
    /\ synth.signal_values[SignalLen].pulse = <<synth.events[1].energy, Rat(0)>>
    /\ synth.events[1].energy # Rat(0)
    /\ synth.signal_values[SignalLen - 1].pulse = <<Rat(0), Rat(0)>>

---------------------------------------------------------------------------
(* Claims about the data methods *)

\* The four records of the fixture: time, energy, altitude.
FixedRecords ==
    << [time |-> [num |-> 1, den |-> 1], energy |-> [num |-> 23, den |-> 10],
        altitude |-> [num |-> 2500, den |-> 1]],
       [time |-> [num |-> 45, den |-> 10], energy |-> [num |-> 15, den |-> 10],
        altitude |-> [num |-> 2300, den |-> 1]],
       [time |-> [num |-> 62, den |-> 10], energy |-> [num |-> 3, den |-> 1],
        altitude |-> [num |-> 2700, den |-> 1]],
       [time |-> [num |-> 87, den |-> 10], energy |-> [num |-> 2, den |-> 1],
        altitude |-> [num |-> 2400, den |-> 1]] >>

\* A call of get_predefined_events, or of get_events in predefined mode,
\* returns.
PredefinedCall ==
    /\ ret' # ret
    /\ \/ ret'.op = "get_predefined_events"
       \/ ret'.op = "get_events" /\ gen.self.mode = "predefined"

\* C14: every call of get_predefined_events, and of get_events in
\* predefined mode, returns the same four records without raising,
\* whatever was called before and whatever the caller did to a list
\* returned earlier.
C14_PredefinedIsFresh ==
    [][PredefinedCall => (ret'.raised = "none" /\ ret'.events = FixedRecords)]_vars

C14_Witness ==
    /\ kept # NoKept /\ kept.n < ret.n /\ kept.events # FixedRecords
    /\ ret.op = "get_predefined_events" /\ ret.events = FixedRecords

\* C15: no step of get_events, get_predefined_events, generate_random_event,
\* read_events_from_file, generate_signal or simulate_continuous changes
\* the mode, signal_file, event_log, duration or noise_level of the
\* generator.
C15_ConfigurationImmutable ==
    [][/\ gen'.self.mode = gen.self.mode
       /\ gen'.self.signal_file = gen.self.signal_file
       /\ gen'.self.event_log = gen.self.event_log
       /\ gen'.self.duration = gen.self.duration
       /\ gen'.self.noise_level = gen.self.noise_level]_vars

C15_Witness ==
    /\ synth.pc = "done" /\ Len(synth.events) >= 3
    /\ gen.self.mode = "simulated"
    /\ gen.self = Attributes(args.mode, args.kw)
    /\ gen.self.duration = 2 /\ gen.self.noise_level = 0

---------------------------------------------------------------------------
(* Claims about the stop flag and about the detector (checked under Spec) *)

\* The flag has been set since the position mark.at and the event count
\* mark.emitted.
FlagHeld == stop_event = "set"

\* C17: the stop flag is examined at the top of the loop only.  A flag set
\* when simulate_continuous is called stops the loop before any wait,
\* event, callback or write; a flag set after an iteration's check lets
\* that iteration run to its end, so that at most one further event is
\* emitted, and none unless the loop was waiting; the loop stops only at
\* the top, with every emitted event's callback and pulse completed.
C17_FlagExaminedAtTop ==
    /\ [](FlagHeld =>
            /\ emitted <= mark.emitted + (IF mark.at = "wait" THEN 1 ELSE 0)
            /\ mark.at = "call" =>
                  /\ pc \in {"check", "stopped"}
                  /\ emitted = 0 /\ cbCalls = 0 /\ writes = <<>>
            /\ (pc = "stopped" /\ mark.at = "wait") => emitted = mark.emitted + 1)
    /\ [](pc \in {"check", "stopped"} =>
            /\ callback => cbCalls = emitted
            /\ HardwareSim => Len(writes) = 2 * emitted)
    /\ [][(pc # "stopped" /\ pc' = "stopped") => (pc = "check" /\ FlagHeld)]_vars
    /\ [][(pc = "check" /\ pc' # pc) =>
              pc' = (IF FlagHeld THEN "stopped" ELSE "wait")]_vars

C17_Witness ==
    /\ pc = "stopped" /\ FlagHeld /\ mark = [at |-> "wait", emitted |-> 0]
    /\ HardwareSim /\ callback
    /\ emitted = 1 /\ cbCalls = 1 /\ writes = <<"1", "0">>

\* The detector has read a "1" that it has not reported yet.
InFlight == IF dpc \in {"inner", "inner_sleep", "report"} THEN 1 ELSE 0

\* C19: nothing tells the generator or the detector of a missed pulse.  The
\* detector never fails on the signal file, it enters its wait for "0" only
\* on reading "1" and reports only from there, so a pulse written and reset
\* between two of its polls leaves no trace; the loop takes its steps
\* whatever the detector does.
C19_MissIsSilent ==
    /\ [](dpc # "crashed")
    /\ [][(dpc = "poll" /\ dpc' = "inner") => Strip(sigFile) = "1"]_vars
    /\ [][detected' # detected => (dpc = "report" /\ detected' = detected + 1)]_vars
    /\ [][(dpc' # dpc /\ dpc' \in {"inner", "inner_sleep", "report"}) =>
              dpc \in {"poll", "inner", "inner_sleep"}]_vars
    /\ [](pc \in {"wait", "callback", "in_callback", "open1", "write1", "hold",
                  "open0", "write0", "print"} => ENABLED LoopStep)

\* A pulse was written and reset while the detector, polling since before
\* it, read no "1".
C19_Witness ==
    /\ HardwareSim /\ before /\ writes = <<"1", "0">>
    /\ dpc = "sleep" /\ signal = "0" /\ detected = 0

\* C20: the detector reports no more detections than the loop has started
\* pulses: every "1" it has read is a different "1" the loop wrote, every
\* report follows a "0" the loop wrote after it, and from its first poll on
\* the detector leaves the signal file as it is.
C20_NoSpuriousDetection ==
    /\ [](detected + InFlight <= (Len(writes) + 1) \div 2)
    /\ [](detected <= Len(writes) \div 2)
    /\ [](~HardwareSim => detected = 0)
    /\ [][(dpc \notin {"off", "reset"} /\ <<dpc, signal, detected>>' # <<dpc, signal, detected>>)
              => sigFile' = sigFile]_vars

C20_Witness ==
    /\ detected = 2 /\ writes = <<"1", "0", "1", "0">> /\ dpc = "sleep"

---------------------------------------------------------------------------
(* Claims about when the signal file is active and about who writes it *)

\* The loop is inside the pulse of an event: from the open for "1" to the
\* write of "0".
PulsePhase == pc \in {"write1", "hold", "open0", "write0"}

\* The file has been opened for writing since construction, by the loop or
\* by the detector script.
Touched == writes # <<>> \/ InTransition \/ dpc # "off"

\* C21 as stated: in hardware_sim mode the signal file reads "1" only
\* inside the pulse phase, and reads "0" whenever the generator is idle,
\* waiting, emitting or stopped, whatever it held before construction.
C21_ActiveOnlyInPulse ==
    HardwareSim =>
        /\ Strip(sigFile) = "1" => PulsePhase
        /\ ~PulsePhase => sigFile = "0"

\* C21 (amended): in hardware_sim mode, once the file was absent at
\* construction or has been opened for writing since, it reads "1" only
\* while the loop holds a pulse, and outside the pulse phase it reads "0"
\* (or is empty while the detector script resets it); a file that existed
\* at construction keeps what it held, "1" included, until then.
C21_ActiveOnlyInPulseOnceWritten ==
    HardwareSim =>
        /\ (Touched \/ preFile = Absent) =>
              /\ Strip(sigFile) = "1" => pc \in {"hold", "open0"}
              /\ ~PulsePhase => (sigFile = "0" \/ (Resetting /\ sigFile = ""))
        /\ (~Touched /\ preFile # Absent) => sigFile = preFile

C21_Witness ==
    /\ HardwareSim /\ preFile = "1" /\ dpc = "off"
    /\ pc = "stopped" /\ writes = <<"1", "0">> /\ sigFile = "0"

\* C22: outside hardware_sim mode the generator leaves the signal file as
\* it was before construction, missing or not: the constructor, every
\* iteration of simulate_continuous, get_events and generate_signal neither
\* create nor write it, and the loop never enters the pulse; with a
\* callback supplied each emitted event is still handed to it.
C22_NoSignalFileOutsideHardwareSim ==
    ~HardwareSim =>
        /\ sigFile = preFile /\ writes = <<>>
        /\ ~PulsePhase /\ pc # "open1"
        /\ callback => cbCalls = (IF pc = "callback" THEN emitted - 1 ELSE emitted)
        /\ (callback /\ cbCalls > 0) => cbArg = cbCalls

C22_Witness ==
    /\ ~HardwareSim /\ preFile = Absent /\ sigFile = Absent
    /\ callback /\ pc = "stopped" /\ emitted = 2 /\ cbCalls = 2

===========================================================================
